---- MODULE Spec2Model ----
(***************************************************************************)
(* A model of PyPass (src/password.py): the character pool built by the    *)
(* constructor, the repair passes (remove_touching_duplicates, the three   *)
(* word/excluded-substring loops, ensure_proportions) and the three        *)
(* generation calls with their breach check and their restart.             *)
(*                                                                         *)
(* A character is a one-character string; a Python str and a Python list   *)
(* of characters are both sequences of characters, and a value handed to   *)
(* str.replace carries its Python type, because str.replace accepts only a *)
(* str.  A function that draws random values is the set of the outcomes it *)
(* can produce; an outcome is a value or a raised exception.               *)
(***************************************************************************)
EXTENDS Integers, Sequences, FiniteSets, TLC

\* ------------------------------------------------------------------ bounds
\* fixed_len passed by a caller who asks for one password
FixLen == 4
\* fixed_len passed by a caller who may ask for several passwords
ShortLen == 1
\* the largest pass_number a caller passes
MaxPassNumber == 2
\* breach rejections explored within one call
MaxRejections == 2
\* strings the two lists hold together before the callers stop calling
MaxStored == 1
\* the longest candidate the repair passes are explored on by themselves
MaxCandLen == 6
\* the longest candidate the word loops are followed on to their end
MaxLoopLen == 5
\* the most classes a caller passes to the constructor as usable_chars
MaxClasses == 2
\* the most characters a caller puts in one class
MaxClassLen == 2
\* the most characters a caller passes as excluded_chars
MaxExcluded == 2

\* ------------------------------------------------- settings and collaborators
\* settings.PSWRD_NO: "If left blank, will generate one password."
PSWRD_NO == 1
\* settings.FIXED_LEN, the default of fixed_len (settings.py is not among the
\* sources): no fixed length, the falsy value `if fixed_len:` tests for
FIXED_LEN == 0

\* constructor arguments (usable_chars, excluded_chars, excluded_words,
\* min_pass_len, max_pass_len): lower case, upper case and digits
Configs ==
    { [usable |-> << <<"a">>, <<"B">>, <<"1">> >>, excluded |-> <<>>,
       words |-> {}, min |-> 3, max |-> 3],
      [usable |-> << <<"a", "b">>, <<"B">>, <<"1">> >>, excluded |-> <<"b">>,
       words |-> {<<"a", "B">>}, min |-> 3, max |-> 3] }

\* constructor arguments for short passwords: lower case and upper case
ShortConfigs ==
    { [usable |-> << <<"a">>, <<"B">> >>, excluded |-> <<>>,
       words |-> {}, min |-> 2, max |-> 2],
      [usable |-> << <<"a", "b">>, <<"B">> >>, excluded |-> <<"b">>,
       words |-> {<<"a", "B">>}, min |-> 2, max |-> 2] }

\* constructor arguments with a character written twice in one class
RepeatConfigs ==
    { [usable |-> << <<"b", "b">>, <<"B">> >>, excluded |-> <<"b">>,
       words |-> {}, min |-> 3, max |-> 3] }

Letters == {"a", "b", "B"}

\* str.lower on one character
LowerChar(c) == IF c = "B" THEN "b" ELSE c

\* str.lower
Lower(s) == [i \in 1..Len(s) |-> LowerChar(s[i])]

\* the lower-case tokens wordnet.synsets knows
WordNet == { <<"a", "b", "b", "a">>, <<"b", "a", "b", "a">> }

\* wordnet.synsets(m.lower()) is non-empty
IsKnownWord(m) == Lower(m) \in WordNet

\* what Language.form_sentece can return
Sentences == { <<"a", "1">>, <<"B", "a">> }

\* ------------------------------------------------------------- Python values
Ok(v) == [err |-> "none", val |-> v]
Raise(e) == [err |-> e, val |-> <<>>]

PyStr(v) == [t |-> "str", v |-> v]
PyList(v) == [t |-> "list", v |-> v]

Range(s) == {s[i] : i \in 1..Len(s)}

\* list.index(x): the first position holding x (1-based here)
IndexOf(s, x) == CHOOSE i \in 1..Len(s) : s[i] = x /\ \A j \in 1..(i-1) : s[j] # x

\* list.remove(x): removes the first occurrence of x
ListRemove(s, x) ==
    LET i == IndexOf(s, x)
    IN  SubSeq(s, 1, i-1) \o SubSeq(s, i+1, Len(s))

\* the inner loop of __init__: one excluded character against every class
RemoveFromClasses(classes, x) ==
    [k \in 1..Len(classes) |->
        IF x \in Range(classes[k]) THEN ListRemove(classes[k], x) ELSE classes[k]]

RECURSIVE BuildPool(_, _)
\* the constructor's filtering of usable_chars by excluded_chars
BuildPool(classes, excluded) ==
    IF excluded = <<>> THEN classes
    ELSE BuildPool(RemoveFromClasses(classes, Head(excluded)), Tail(excluded))

\* s occurs in t at position p
OccursAt(s, t, p) == p + Len(s) - 1 <= Len(t) /\ SubSeq(t, p, p + Len(s) - 1) = s

\* Python's `s in t` on strings
IsSubstring(s, t) == \E p \in 1..(Len(t) + 1) : OccursAt(s, t, p)

RECURSIVE ReplaceFrom(_, _, _, _)
\* str.replace, scanning from position p: every non-overlapping occurrence
\* of old, left to right (old is never empty here)
ReplaceFrom(s, old, new, p) ==
    IF p > Len(s) THEN <<>>
    ELSE IF OccursAt(old, s, p) THEN new \o ReplaceFrom(s, old, new, p + Len(old))
    ELSE <<s[p]>> \o ReplaceFrom(s, old, new, p + 1)

\* str.replace(old, new): new must be a str
StrReplace(s, old, new) ==
    IF new.t # "str" THEN Raise("TypeError") ELSE Ok(ReplaceFrom(s, old, new.v, 1))

RECURSIVE RunsFrom(_, _, _)
\* the maximal letter runs of s from position p on, left to right
RunsFrom(s, p, cur) ==
    IF p > Len(s) THEN (IF cur = <<>> THEN <<>> ELSE <<cur>>)
    ELSE IF s[p] \in Letters THEN RunsFrom(s, p + 1, Append(cur, s[p]))
    ELSE (IF cur = <<>> THEN <<>> ELSE <<cur>>) \o RunsFrom(s, p + 1, <<>>)

\* re.compile('[a-zA-Z]{lo,}').findall(s)
FindAll(s, lo) == SelectSeq(RunsFrom(s, 1, <<>>), LAMBDA m : Len(m) >= lo)

VARIABLES
    excluded_chars,   \* self.excluded_chars
    usable_chars,     \* self.usable_chars: the filtered classes, in order
    excluded_words,   \* self.excluded_words
    min_pass_len,     \* self.min_pass_len
    max_pass_len,     \* self.max_pass_len
    passwords,        \* self.passwords
    human_passwords,  \* self.human_passwords
    stack,            \* the active calls, innermost last
    cand,             \* the innermost call's candidate (pass_string_list / my_pass)
    checked,          \* the string handed to pw.is_password_breached
    breached,         \* what pw.is_password_breached answered for it
    verdicts,         \* the breach answers given since the outermost call began
    call,             \* the outermost call: its arguments, the lists' lengths at entry
    outcome           \* how the outermost call stands: running, returned, or the error

vars == << excluded_chars, usable_chars, excluded_words, min_pass_len,
           max_pass_len, passwords, human_passwords, stack, cand,
           checked, breached, verdicts, call, outcome >>

\* ---------------------------------------------------------------- Mutator
\* secrets.choice(self.usable_chars[self.usable_chars.index(
\*     secrets.choice(self.usable_chars))]): the outcomes of one draw
SampleChar ==
    IF usable_chars = <<>> THEN {Raise("IndexError")}
    ELSE UNION { IF usable_chars[k] = <<>> THEN {Raise("IndexError")}
                 ELSE {Ok(<<c>>) : c \in Range(usable_chars[k])}
                 : k \in 1..Len(usable_chars) }

SampleOk == {o.val[1] : o \in {x \in SampleChar : x.err = "none"}}
SampleErr == {o \in SampleChar : o.err # "none"}

\* generate_random(pass_length)
generate_random(n) ==
    IF n <= 0 THEN {Ok(<<>>)}
    ELSE {Ok(s) : s \in [1..n -> SampleOk]} \cup SampleErr

\* ------------------------------------------------------------ RepairEngine
\* a slip: the second character of a pair is the one replaced
remove_touching_duplicates_second(list) ==
    IF list = <<>> THEN {Raise("IndexError")}
    ELSE LET n == Len(list)
             dup == {i \in 2..n : list[i-1] = list[i]}
         IN  {Ok([i \in 1..n |-> IF i \in dup THEN f[i] ELSE list[i]]) :
                 f \in [dup -> SampleOk]}
             \cup (IF dup # {} THEN SampleErr ELSE {})

\* remove_touching_duplicates(my_string_list)
remove_touching_duplicates(list) ==
    IF list = <<>> THEN {Raise("IndexError")}
    ELSE LET n == Len(list)
             dup == {i \in 1..(n-1) : list[i] = list[i+1]}
         IN  {Ok([i \in 1..n |-> IF i \in dup THEN f[i] ELSE list[i]]) :
                 f \in [dup -> SampleOk]}
             \cup (IF dup # {} THEN SampleErr ELSE {})

\* contains_excluded(my_string)
contains_excluded(s) == \E w \in excluded_words : IsSubstring(w, s)

\* a slip: an off-by-one in the length test
Qualifies_off_by_one(variant, m, pass_string) ==
    CASE variant = "fls" -> (IsKnownWord(m) \/ contains_excluded(m)) /\ Len(m) > 4
      [] variant = "eng" -> IsKnownWord(m) /\ Len(m) > 4
      [] OTHER -> contains_excluded(pass_string) /\ Len(m) > 4

\* the test guarding a replacement, per loop: find_letter_sequences ("fls"),
\* remove_english ("eng"), remove_excluded ("exc")
Qualifies(variant, m, pass_string) ==
    CASE variant = "fls" -> (IsKnownWord(m) \/ contains_excluded(m)) /\ Len(m) > 3
      [] variant = "eng" -> IsKnownWord(m) /\ Len(m) > 3
      [] OTHER -> contains_excluded(pass_string) /\ Len(m) > 3

\* the shortest run the loop's pattern matches: {2,} or +
MinRun(variant) == IF variant = "fls" THEN 2 ELSE 1

\* the second argument of pass_string.replace(m, ...): the list a generator
\* returned, handed over as it is
ReplacementArg(list) == PyList(list)

\* the values the replacement expression can take for a run of length n
Replacements(n, remove_touching) ==
    IF remove_touching
    THEN UNION { IF g.err = "none" THEN remove_touching_duplicates(g.val) ELSE {g}
                 : g \in generate_random(n) }
    ELSE generate_random(n)

\* pass_string.replace(m, <replacement>): the draws are made, then str.replace
\* looks at the type of what it is handed before anything else, so a
\* replacement that is not a str ends every draw that succeeded in TypeError
ReplaceOutcomes(pass_string, m, remove_touching) ==
    IF ReplacementArg(<<>>).t # "str"
    THEN {StrReplace(pass_string, m, ReplacementArg(<<>>))}
         \cup (IF Len(m) > 0 THEN SampleErr ELSE {})
    ELSE {IF r.err # "none" THEN r ELSE StrReplace(pass_string, m, ReplacementArg(r.val))
             : r \in Replacements(Len(m), remove_touching)}

RECURSIVE ForMatches(_, _, _, _, _)
\* the `for m in matches` loop: the outcomes [err, val, finds] it can end with
ForMatches(variant, matches, pass_string, f, remove_touching) ==
    IF matches = <<>> THEN {[err |-> "none", val |-> pass_string, finds |-> f]}
    ELSE LET m == Head(matches)
         IN  IF Qualifies(variant, m, pass_string)
             THEN UNION {
                    IF r.err # "none" THEN {[err |-> r.err, val |-> <<>>, finds |-> 1]}
                    ELSE ForMatches(variant, Tail(matches), r.val, 1, remove_touching)
                    : r \in ReplaceOutcomes(pass_string, m, remove_touching) }
             ELSE ForMatches(variant, Tail(matches), pass_string, 0, remove_touching)

\* a slip: finds is never cleared
ScanPass_finds_kept(variant, pass_string, remove_touching) ==
    {[o EXCEPT !.finds = 1] :
        o \in ForMatches(variant, FindAll(pass_string, MinRun(variant)),
                         pass_string, 1, remove_touching)}

\* one iteration of `while finds == 1`: findall, then the for loop
ScanPass(variant, pass_string, remove_touching) ==
    LET matches == FindAll(pass_string, MinRun(variant))
    IN  IF Len(matches) > 0
        THEN ForMatches(variant, matches, pass_string, 1, remove_touching)
        ELSE {[err |-> "none", val |-> pass_string, finds |-> 0]}

\* generate_new_dict: the keys, in insertion order (str(index(v)) for each v)
DictKeys ==
    SelectSeq([k \in 1..Len(usable_chars) |-> k],
              LAMBDA k : IndexOf(usable_chars, usable_chars[k]) = k)

\* generate_new_dict(string_members)[k]: sum(ch in v for ch in string_members)
ClassCount(string_members, k) ==
    Cardinality({i \in 1..Len(string_members) :
                    string_members[i] \in Range(usable_chars[k])})

\* a slip: two of each class asked for
confirm_proportions_two(string_members) ==
    \A j \in 1..Len(DictKeys) : ClassCount(string_members, DictKeys[j]) >= 2

\* a slip: any() for all()
confirm_proportions_any(string_members) ==
    \E j \in 1..Len(DictKeys) : ClassCount(string_members, DictKeys[j]) >= 1

\* confirm_proportions(generate_new_dict(string_members))
confirm_proportions(string_members) ==
    \A j \in 1..Len(DictKeys) : ClassCount(string_members, DictKeys[j]) >= 1

\* lines 275-276 of ensure_proportions: a random position takes a random
\* character of class k
OverwriteFromClass(string_members, k) ==
    IF string_members = <<>> \/ usable_chars[k] = <<>> THEN {Raise("IndexError")}
    ELSE {Ok([string_members EXCEPT ![index] = c]) :
             index \in 1..Len(string_members), c \in Range(usable_chars[k])}

\* ------------------------------------------------------- CandidateValidator
NoCall == [fn |-> "none", n |-> 0, rr |-> FALSE, re |-> FALSE, cp |-> FALSE,
           fl |-> 0, p0 |-> 0, h0 |-> 0]

\* what the constructor sets once
config == << excluded_chars, usable_chars, excluded_words, min_pass_len, max_pass_len >>

\* __init__ with the arguments c: the fields it sets from them
Construct(c) ==
    /\ excluded_chars = c.excluded
    /\ usable_chars = BuildPool(c.usable, c.excluded)
    /\ excluded_words = c.words
    /\ min_pass_len = c.min
    /\ max_pass_len = c.max

\* a PyPass as __init__ leaves it (constructed with a language_lib, so that
\* generate_sentence_pass has its language_manager)
Init ==
    /\ \E c \in ShortConfigs : Construct(c)
    /\ passwords = <<>>
    /\ human_passwords = <<>>
    /\ stack = <<>>
    /\ cand = <<>>
    /\ checked = <<>>
    /\ breached = 0
    /\ verdicts = <<>>
    /\ call = NoCall
    /\ outcome = "none"

\* the innermost active call
Top == stack[Len(stack)]
\* some call is active
Running == stack # <<>>
\* len(self.all_passwords)
Stored == Len(passwords) + Len(human_passwords)
\* a slip: the two lists concatenated the other way round
all_passwords_swapped == human_passwords \o passwords

\* the all_passwords property: self.passwords + self.human_passwords
all_passwords == passwords \o human_passwords

\* a slip: the breach test inverted
Compromised_inverted(count) == count = 0

\* `pw.is_password_breached(password=my_pass) != 0`
Compromised(count) == count # 0

\* the candidates answered as compromised since the outermost call began
Rejections == Len(SelectSeq(verdicts, LAMBDA b : b # 0))

\* a call as it is entered: its arguments (rr, re, cp, fl for remove_repeating,
\* remove_english, check_proportions, fixed_len), the loop index i, the place
\* pc within the iteration and the key index k of ensure_proportions
Frame(fn, n, rr, re, cp, fl) ==
    [fn |-> fn, n |-> n, i |-> 0, rr |-> rr, re |-> re, cp |-> cp, fl |-> fl,
     pc |-> "loop", k |-> 0]

\* the innermost call moves on to f
SetTop(f) == [stack EXCEPT ![Len(stack)] = f]

\* an exception nobody catches: every active call is abandoned
Unwind(e) ==
    /\ stack' = <<>>
    /\ outcome' = e
    /\ cand' = <<>>
    /\ checked' = <<>>
    /\ breached' = 0

\* "Prevents setting password number below 1."
ClampNumber(pass_number) == IF pass_number < 1 THEN 1 ELSE pass_number

\* the stage that follows stage `after` in one attempt of the frame f
StageAfter(f, after) ==
    IF f.fn = "human"
    THEN CASE after = "draw" -> "adj"
           [] after = "adj" -> "fls"
           [] after = "fls" -> "prop"
           [] OTHER -> "check"
    ELSE LET order == <<"draw", "adj", "eng", "exc", "prop", "check">>
             on(s) == CASE s = "adj" -> f.rr
                        [] s = "eng" -> f.re
                        [] s = "exc" -> Cardinality(excluded_words) > 0
                        [] s = "prop" -> f.cp
                        [] OTHER -> TRUE
             pos == IndexOf(order, after)
             later == {j \in (pos+1)..Len(order) : on(order[j])}
         IN  order[CHOOSE j \in later : \A j2 \in later : j <= j2]

\* generate_password(pass_number, remove_repeating, remove_english,
\* check_proportions, fixed_len) is entered by the caller
EnterGeneratePassword(pass_number, rr, re, cp, fl) ==
    /\ ~Running
    /\ Stored < MaxStored
    /\ stack' = <<Frame("direct", ClampNumber(pass_number), rr, re, cp, fl)>>
    /\ call' = [fn |-> "direct", n |-> pass_number, rr |-> rr, re |-> re,
                cp |-> cp, fl |-> fl, p0 |-> Len(passwords),
                h0 |-> Len(human_passwords)]
    /\ outcome' = "running"
    /\ verdicts' = <<>>
    /\ cand' = <<>> /\ checked' = <<>> /\ breached' = 0
    /\ UNCHANGED << config, passwords,
                    human_passwords >>

\* the caller starts generate_password with any arguments
CallGeneratePassword ==
    \E pass_number \in 0..MaxPassNumber, rr \in BOOLEAN, re \in BOOLEAN,
       cp \in BOOLEAN, fl \in {FIXED_LEN, ShortLen} :
       EnterGeneratePassword(pass_number, rr, re, cp, fl)

\* generate_human_password(pass_number, fixed_len) is entered by the caller
EnterGenerateHumanPassword(pass_number, fl) ==
    /\ ~Running
    /\ Stored < MaxStored
    /\ stack' = <<Frame("human", ClampNumber(pass_number), TRUE, TRUE, TRUE, fl)>>
    /\ call' = [fn |-> "human", n |-> pass_number, rr |-> TRUE, re |-> TRUE,
                cp |-> TRUE, fl |-> fl, p0 |-> Len(passwords),
                h0 |-> Len(human_passwords)]
    /\ outcome' = "running"
    /\ verdicts' = <<>>
    /\ cand' = <<>> /\ checked' = <<>> /\ breached' = 0
    /\ UNCHANGED << config, passwords, human_passwords >>

\* the caller starts generate_human_password with any arguments
CallGenerateHumanPassword ==
    \E pass_number \in 0..MaxPassNumber, fl \in {FIXED_LEN, ShortLen} :
       EnterGenerateHumanPassword(pass_number, fl)

\* the caller starts generate_sentence_pass(pass_number)
CallGenerateSentencePass ==
    /\ ~Running
    /\ Stored < MaxStored
    /\ \E pass_number \in 0..MaxPassNumber :
          /\ stack' = <<Frame("sentence", pass_number, FALSE, FALSE, FALSE, 0)>>
          /\ call' = [fn |-> "sentence", n |-> pass_number, rr |-> FALSE,
                      re |-> FALSE, cp |-> FALSE, fl |-> 0, p0 |-> Len(passwords),
                      h0 |-> Len(human_passwords)]
    /\ outcome' = "running"
    /\ verdicts' = <<>>
    /\ cand' = <<>> /\ checked' = <<>> /\ breached' = 0
    /\ UNCHANGED << config, passwords, human_passwords >>

\* a slip: fixed_len ignored
DrawOutcomes_range(fl) ==
    UNION {generate_random(len) : len \in min_pass_len..max_pass_len}

\* the first draw of an attempt: generate_random(fixed_len), or of a length
\* chosen in range(min_pass_len, max_pass_len + 1)
DrawOutcomes(fl) ==
    IF fl # 0 THEN generate_random(fl)
    ELSE IF min_pass_len > max_pass_len THEN {Raise("IndexError")}
    ELSE UNION {generate_random(len) : len \in min_pass_len..max_pass_len}

\* `for number in range(pass_number)` exhausted: the call returns
Return ==
    /\ Running
    /\ Top.pc = "loop"
    /\ Top.i >= Top.n
    /\ stack' = SubSeq(stack, 1, Len(stack) - 1)
    /\ outcome' = IF Len(stack) = 1 THEN "returned" ELSE outcome
    /\ cand' = <<>>
    /\ UNCHANGED << config, passwords, human_passwords,
                    checked, breached, verdicts, call >>

\* the next iteration of generate_password / generate_human_password begins:
\* the candidate is drawn
Draw ==
    /\ Running
    /\ Top.pc = "loop"
    /\ Top.i < Top.n
    /\ Top.fn \in {"direct", "human"}
    /\ \E o \in DrawOutcomes(Top.fl) :
          IF o.err # "none"
          THEN Unwind(o.err)
          ELSE /\ cand' = o.val
               /\ stack' = SetTop([Top EXCEPT !.pc = StageAfter(Top, "draw")])
               /\ UNCHANGED << checked, breached, outcome >>
    /\ UNCHANGED << config, passwords, human_passwords,
                    verdicts, call >>

\* the next iteration of generate_sentence_pass begins:
\* my_pass = self.language_manager.form_sentece()
DrawSentence ==
    /\ Running
    /\ Top.pc = "loop"
    /\ Top.i < Top.n
    /\ Top.fn = "sentence"
    /\ \E s \in Sentences :
          /\ cand' = s
          /\ stack' = SetTop([Top EXCEPT !.pc = "check"])
    /\ UNCHANGED << config, passwords, human_passwords,
                    checked, breached, verdicts, call, outcome >>

\* "Removing touching duplicate chars"
Adjacency ==
    /\ Running
    /\ Top.pc = "adj"
    /\ \E o \in remove_touching_duplicates(cand) :
          IF o.err # "none"
          THEN Unwind(o.err)
          ELSE /\ cand' = o.val
               /\ stack' = SetTop([Top EXCEPT !.pc = StageAfter(Top, "adj")])
               /\ UNCHANGED << checked, breached, outcome >>
    /\ UNCHANGED << config, passwords, human_passwords,
                    verdicts, call >>

\* remove_touching as the running loop is called: find_letter_sequences always
\* repairs its replacement, the other two take the caller's remove_repeating
TouchingFlag(f) == IF f.pc = "fls" THEN TRUE ELSE f.rr

\* one `while finds == 1` iteration of find_letter_sequences, remove_english
\* or remove_excluded, as the attempt's own stage
WordPass ==
    /\ Running
    /\ Top.pc \in {"fls", "eng", "exc"}
    /\ \E o \in ScanPass(Top.pc, cand, TouchingFlag(Top)) :
          IF o.err # "none"
          THEN Unwind(o.err)
          ELSE /\ cand' = o.val
               /\ stack' = SetTop([Top EXCEPT !.pc =
                                      IF o.finds = 1 THEN Top.pc
                                      ELSE StageAfter(Top, Top.pc)])
               /\ UNCHANGED << checked, breached, outcome >>
    /\ UNCHANGED << config, passwords, human_passwords,
                    verdicts, call >>

\* ensure_proportions: the `while not self.confirm_proportions(...)` test
ProportionsTest ==
    /\ Running
    /\ Top.pc = "prop"
    /\ stack' = SetTop(IF confirm_proportions(cand)
                       THEN [Top EXCEPT !.pc = "check", !.k = 0]
                       ELSE [Top EXCEPT !.pc = "propitem", !.k = 1])
    /\ UNCHANGED << config, passwords, human_passwords, cand,
                    checked, breached, verdicts, call, outcome >>

\* the end of one `for item` iteration: the next key, or back to the while test
NextItem(f) ==
    IF f.k < Len(DictKeys) THEN [f EXCEPT !.pc = "propitem", !.k = f.k + 1]
    ELSE [f EXCEPT !.pc = "prop", !.k = 0]

\* ensure_proportions: one `for item in string_proportions.keys()` iteration,
\* up to the call of remove_excluded
ProportionsItem ==
    /\ Running
    /\ Top.pc = "propitem"
    /\ IF ClassCount(cand, DictKeys[Top.k]) < 1
       THEN \E o \in OverwriteFromClass(cand, DictKeys[Top.k]) :
               IF o.err # "none"
               THEN Unwind(o.err)
               ELSE /\ cand' = o.val
                    /\ stack' = SetTop(IF Cardinality(excluded_words) > 0
                                       THEN [Top EXCEPT !.pc = "propexc"]
                                       ELSE NextItem(Top))
                    /\ UNCHANGED << checked, breached, outcome >>
       ELSE /\ stack' = SetTop(NextItem(Top))
            /\ UNCHANGED << cand, checked, breached, outcome >>
    /\ UNCHANGED << config, passwords, human_passwords,
                    verdicts, call >>

\* ensure_proportions: one `while finds == 1` iteration of
\* self.remove_excluded(string_members, remove_touching=False)
ProportionsExcluded ==
    /\ Running
    /\ Top.pc = "propexc"
    /\ \E o \in ScanPass("exc", cand, FALSE) :
          IF o.err # "none"
          THEN Unwind(o.err)
          ELSE /\ cand' = o.val
               /\ stack' = SetTop(IF o.finds = 1 THEN Top ELSE NextItem(Top))
               /\ UNCHANGED << checked, breached, outcome >>
    /\ UNCHANGED << config, passwords, human_passwords,
                    verdicts, call >>

\* what pw.is_password_breached can answer: how often the password was seen
BreachCounts == {0, 1}

\* my_pass = ''.join(...); pw.is_password_breached(password=my_pass)
BreachCheck ==
    /\ Running
    /\ Top.pc = "check"
    /\ \E b \in BreachCounts :
          /\ b # 0 => Rejections < MaxRejections
          /\ breached' = b
          /\ verdicts' = Append(verdicts, b)
    /\ checked' = cand
    /\ stack' = SetTop([Top EXCEPT !.pc = "verdict"])
    /\ UNCHANGED << config, passwords, human_passwords, cand,
                    call, outcome >>

\* the list a call appends to: generate_human_password keeps its own
AcceptsInto(fn) == IF fn = "human" THEN "human_passwords" ELSE "passwords"

\* the else branch: self.passwords.append(my_pass) or
\* self.human_passwords.append(my_pass)
Accept ==
    /\ Running
    /\ Top.pc = "verdict"
    /\ ~Compromised(breached)
    /\ IF AcceptsInto(Top.fn) = "human_passwords"
       THEN /\ human_passwords' = Append(human_passwords, cand)
            /\ UNCHANGED passwords
       ELSE /\ passwords' = Append(passwords, cand)
            /\ UNCHANGED human_passwords
    /\ stack' = SetTop([Top EXCEPT !.pc = "loop", !.i = Top.i + 1])
    /\ cand' = <<>>
    /\ checked' = <<>>
    /\ UNCHANGED << config, breached, verdicts, call, outcome >>

\* the parameters of generate_password
DirectParams ==
    {"pass_number", "remove_repeating", "remove_english", "check_proportions",
     "fixed_len"}

\* the keywords generate_password passes to itself on a breach
RetryKeywords ==
    {"pass_number", "remove_repeating", "remove_english", "ensure_proportions"}

\* the call a rejected attempt of frame f makes
RetryCall(f) ==
    CASE f.fn = "direct" ->
            IF RetryKeywords \subseteq DirectParams
            THEN Ok(Frame("direct", ClampNumber(f.n), f.rr, f.re, FALSE, FIXED_LEN))
            ELSE Raise("TypeError")
      [] f.fn = "human" ->
            Ok(Frame("direct", ClampNumber(PSWRD_NO), FALSE, FALSE, FALSE, FIXED_LEN))
      [] OTHER -> Ok(Frame("sentence", f.n, FALSE, FALSE, FALSE, 0))

\* the breached branch: the call made in place of the rejected attempt
Retry ==
    /\ Running
    /\ Top.pc = "verdict"
    /\ Compromised(breached)
    /\ LET r == RetryCall(Top)
       IN  IF r.err # "none"
           THEN Unwind(r.err)
           ELSE /\ stack' = Append(SetTop([Top EXCEPT !.pc = "loop", !.i = Top.i + 1]),
                                   r.val)
                /\ cand' = <<>>
                /\ checked' = <<>>
                /\ breached' = 0
                /\ UNCHANGED outcome
    /\ UNCHANGED << config, passwords, human_passwords,
                    verdicts, call >>

Next ==
    \/ CallGeneratePassword
    \/ CallGenerateHumanPassword
    \/ CallGenerateSentencePass
    \/ Draw
    \/ DrawSentence
    \/ Adjacency
    \/ WordPass
    \/ ProportionsTest
    \/ ProportionsItem
    \/ ProportionsExcluded
    \/ BreachCheck
    \/ Accept
    \/ Retry
    \/ Return

Spec == Init /\ [][Next]_vars

\* ----------------------------------------------- the repair passes by themselves
\* The state right after the draw of a call with fixed_len = Len(cand), for
\* every candidate over the pool of up to longest characters: the repair
\* stages of that one attempt then run up to the breach check.
InitRepairUpTo(longest) ==
    /\ \E c \in Configs : Construct(c)
    /\ passwords = <<>>
    /\ human_passwords = <<>>
    /\ \E len \in 1..longest :
          /\ cand \in {o.val : o \in {x \in generate_random(len) : x.err = "none"}}
          /\ \E fn \in {"direct", "human"}, rr \in BOOLEAN, re \in BOOLEAN,
                cp \in BOOLEAN :
                /\ fn = "human" => (rr /\ re /\ cp)
                /\ call = [fn |-> fn, n |-> 1, rr |-> rr, re |-> re, cp |-> cp,
                           fl |-> len, p0 |-> 0, h0 |-> 0]
                /\ stack = << [Frame(fn, 1, rr, re, cp, len) EXCEPT !.pc =
                                 StageAfter(Frame(fn, 1, rr, re, cp, len), "draw")] >>
    /\ checked = <<>>
    /\ breached = 0
    /\ verdicts = <<>>
    /\ outcome = "running"

InitRepair == InitRepairUpTo(MaxCandLen)

NextRepair ==
    \/ Adjacency
    \/ WordPass
    \/ ProportionsTest
    \/ ProportionsItem
    \/ ProportionsExcluded

SpecRepair == InitRepair /\ [][NextRepair]_vars

\* The interpreter always takes the next step of a loop it is in.
SpecRepairFair ==
    /\ InitRepairUpTo(MaxLoopLen)
    /\ [][NextRepair]_vars
    /\ WF_vars(NextRepair)

\* ------------------------------------- one password of a fixed length, fairly
\* a PyPass as __init__ leaves it, for passwords of FixLen characters
InitOne ==
    /\ \E c \in Configs : Construct(c)
    /\ passwords = <<>>
    /\ human_passwords = <<>>
    /\ stack = <<>>
    /\ cand = <<>>
    /\ checked = <<>>
    /\ breached = 0
    /\ verdicts = <<>>
    /\ call = NoCall
    /\ outcome = "none"

\* the first call on the object asks generate_password for one password of
\* length FixLen
CallOneFixed ==
    /\ outcome = "none"
    /\ \E rr \in BOOLEAN, re \in BOOLEAN, cp \in BOOLEAN :
          EnterGeneratePassword(1, rr, re, cp, FixLen)

\* the first call on the object asks generate_human_password for one password
\* of length FixLen
CallOneHuman ==
    /\ outcome = "none"
    /\ EnterGenerateHumanPassword(1, FixLen)

NextOne ==
    \/ CallOneFixed
    \/ CallOneHuman
    \/ Draw
    \/ Adjacency
    \/ WordPass
    \/ ProportionsTest
    \/ ProportionsItem
    \/ ProportionsExcluded
    \/ BreachCheck
    \/ Accept
    \/ Retry
    \/ Return

\* a PyPass as __init__ leaves it, classes with a repeated character included
InitAnyPool ==
    /\ \E c \in Configs \cup RepeatConfigs : Construct(c)
    /\ passwords = <<>>
    /\ human_passwords = <<>>
    /\ stack = <<>>
    /\ cand = <<>>
    /\ checked = <<>>
    /\ breached = 0
    /\ verdicts = <<>>
    /\ call = NoCall
    /\ outcome = "none"

SpecAnyPool == InitAnyPool /\ [][NextOne]_vars

\* ensure_proportions overwrites position index
OverwriteAt(index) ==
    /\ ProportionsItem
    /\ Len(cand') = Len(cand)
    /\ index <= Len(cand)
    /\ cand'[index] # cand[index]

\* The interpreter always takes the next step, and secrets.choice gives every
\* position a positive probability at every draw: a position that can be
\* drawn again and again is drawn.
SpecOneFair ==
    /\ InitOne
    /\ [][NextOne]_vars
    /\ WF_vars(NextOne)
    /\ \A index \in 1..FixLen : SF_vars(OverwriteAt(index))

\* ------------------------------------------------------- the constructor
\* the characters a caller builds classes and exclusions from
CtorChars == {"a", "b"}

\* the lists of up to n characters
CharLists(n) == UNION {[1..len -> CtorChars] : len \in 0..n}

\* PyPass(usable_chars, excluded_chars, ...) has been entered and line 44 has
\* run: any list of classes, duplicates within a class and across classes
\* included, and any list of excluded characters.  usable_chars is the list
\* object the caller passed, which the loop filters in place and line 55
\* stores; the other fields are not set yet.
InitArgs ==
    /\ \E n \in 0..MaxClasses : usable_chars \in [1..n -> CharLists(MaxClassLen)]
    /\ excluded_chars \in CharLists(MaxExcluded)
    /\ \E c \in Configs :
          call = [fn |-> "init", usable |-> usable_chars, excluded |-> excluded_chars,
                  words |-> c.words, min |-> c.min, max |-> c.max]
    /\ excluded_words = {}
    /\ min_pass_len = 0
    /\ max_pass_len = 0
    /\ passwords = <<>>
    /\ human_passwords = <<>>
    /\ stack = << [Frame("init", 0, FALSE, FALSE, FALSE, 0) EXCEPT !.pc = "excl"] >>
    /\ cand = <<>>
    /\ checked = <<>>
    /\ breached = 0
    /\ verdicts = <<>>
    /\ outcome = "constructing"

\* one iteration of `for excl_char in excluded_chars`: the inner loop over
\* every class
ExcludeChar ==
    /\ Running
    /\ Top.pc = "excl"
    /\ Top.i < Len(excluded_chars)
    /\ usable_chars' = RemoveFromClasses(usable_chars, excluded_chars[Top.i + 1])
    /\ stack' = SetTop([Top EXCEPT !.i = Top.i + 1])
    /\ UNCHANGED << excluded_chars, excluded_words, min_pass_len, max_pass_len,
                    passwords, human_passwords, cand, checked, breached,
                    verdicts, call, outcome >>

\* the loop is exhausted: lines 55-69 set the remaining fields
FinishInit ==
    /\ Running
    /\ Top.pc = "excl"
    /\ Top.i >= Len(excluded_chars)
    /\ excluded_words' = call.words
    /\ min_pass_len' = call.min
    /\ max_pass_len' = call.max
    /\ human_passwords' = <<>>
    /\ passwords' = <<>>
    /\ stack' = <<>>
    /\ outcome' = "none"
    /\ UNCHANGED << excluded_chars, usable_chars, cand, checked, breached,
                    verdicts, call >>

NextConstruct ==
    \/ ExcludeChar
    \/ FinishInit

SpecConstruct == InitArgs /\ [][NextConstruct]_vars

\* ------------------------------------------------------------------ claims
Errors == {"TypeError", "IndexError"}

\* the strings the outermost call has appended so far
NewPasswords == SubSeq(passwords, call.p0 + 1, Len(passwords))
NewHuman == SubSeq(human_passwords, call.h0 + 1, Len(human_passwords))
Appended == Len(NewPasswords) + Len(NewHuman)

\* every class of the pool has a character in s
CoversEveryClass(s) ==
    \A k \in 1..Len(usable_chars) : \E i \in 1..Len(s) : s[i] \in Range(usable_chars[k])

\* C1: in all three modes a list changes only by appending the one string that
\* was just handed to the breach check and was answered "not compromised"
\* (count 0); a string answered as compromised is never appended.
C1_AppendedOnlyIfCheckedClean ==
    [][ (passwords' # passwords \/ human_passwords' # human_passwords)
        => /\ Running
           /\ verdicts # <<>>
           /\ verdicts[Len(verdicts)] = 0
           /\ breached = 0
           /\ \/ passwords' = Append(passwords, checked)
                 /\ human_passwords' = human_passwords
              \/ human_passwords' = Append(human_passwords, checked)
                 /\ passwords' = passwords ]_vars

\* C1 witness: a call that met a rejection has appended to both lists
C1_Witness ==
    /\ passwords # <<>>
    /\ human_passwords # <<>>
    /\ Rejections >= 1

\* C2: every password appended by generate_password called with
\* check_proportions=True holds a character of every class of the pool,
\* whatever the other flags, the exclusion set and the breach answers.
C2_DirectCoverage ==
    (call.fn = "direct" /\ call.cp)
        => \A j \in 1..Len(NewPasswords) : CoversEveryClass(NewPasswords[j])

\* C2 witness: such a call, with both other repairs on and an exclusion set
\* configured, has appended a password
C2_Witness ==
    /\ call.fn = "direct" /\ call.cp /\ call.rr /\ call.re
    /\ excluded_words # {}
    /\ Len(NewPasswords) = 1

\* C3 as claimed: with a non-empty exclusion set, no password appended by
\* generate_password or generate_human_password contains an excluded word.
C3_NoExcludedWordAccepted ==
    (excluded_words # {} /\ call.fn \in {"direct", "human"})
        => /\ \A j \in 1..Len(NewPasswords) : ~contains_excluded(NewPasswords[j])
           /\ \A j \in 1..Len(NewHuman) : ~contains_excluded(NewHuman[j])

\* the breach answers so far are: compromised once, then clean
FirstCompromisedThenClean ==
    /\ verdicts # <<>>
    /\ verdicts[1] # 0
    /\ \A j \in 2..Len(verdicts) : verdicts[j] = 0

\* C4 as claimed: a call for one password whose first candidate is answered
\* compromised and every later one clean does not end in an error, and when it
\* has returned it has accepted a candidate.
C4_RetryAcceptsSecondCandidate ==
    (call.n = 1 /\ FirstCompromisedThenClean)
        => /\ outcome \notin Errors
           /\ outcome = "returned" => Appended >= 1

\* C5 as claimed: a call of generate_human_password appends only to
\* human_passwords and leaves passwords unchanged, also after a breach
\* rejection.
C5_HumanCallLeavesPasswords ==
    call.fn = "human" => Len(passwords) = call.p0

\* C6 as claimed: a call with pass_number = n >= 1 that has returned has
\* appended exactly n passwords.
C6_ReturnsWithExactlyN ==
    (outcome = "returned" /\ call.n >= 1) => Appended = call.n

\* the maximal letter runs of s
LetterRuns(s) == Range(FindAll(s, 1))

\* every breach answer of the call so far was "not compromised"
AllClean == \A j \in 1..Len(verdicts) : verdicts[j] = 0

\* generate_password(pass_number=1, check_proportions=True, fixed_len=FixLen),
\* remove_english left off, on a PyPass without exclusions, FixLen being at
\* least the number of classes
C7Call ==
    /\ call.fn = "direct" /\ call.n = 1 /\ call.cp /\ ~call.re
    /\ call.fl = FixLen
    /\ FixLen >= Len(usable_chars)
    /\ excluded_words = {}
    /\ excluded_chars = <<>>

\* the call has returned with exactly one new string, of FixLen characters,
\* holding a character of every class
C7Done ==
    /\ outcome = "returned"
    /\ NewHuman = <<>>
    /\ Len(NewPasswords) = 1
    /\ Len(NewPasswords[1]) = FixLen
    /\ CoversEveryClass(NewPasswords[1])

\* C7: without exclusions and with the breach check always answering "not
\* compromised", generate_password for one password of fixed length L >= the
\* number of classes, class coverage on, terminates, and it has then appended
\* exactly one string, of L characters, with a character of every class.
C7_OneCoveredPasswordOfFixedLength ==
    /\ [](C7Call /\ AllClean /\ outcome = "returned" => C7Done)
    /\ (C7Call /\ outcome = "running") ~> (C7Done \/ ~AllClean)

\* C7 witness: such a call has returned its one password
C7_Witness == C7Call /\ AllClean /\ C7Done

\* C8 as claimed: one application of remove_touching_duplicates leaves no
\* position i with input[i] = input[i+1] at which output[i] and output[i+1]
\* are both still that repeated character.
C8_OriginalPairsBroken ==
    [][ (Running /\ Top.pc = "adj" /\ stack' # <<>>)
        => \A i \in 1..(Len(cand) - 1) :
              cand[i] = cand[i+1] => ~(cand'[i] = cand[i] /\ cand'[i+1] = cand[i]) ]_vars

\* C9: when remove_english or find_letter_sequences returns, its output is a
\* fixed point: no maximal letter run longer than 3 is a known word (nor, for
\* find_letter_sequences, contains an excluded word), and one more pass over
\* the output replaces nothing and ends the loop.
C9_WordRepairFixedPoint ==
    [][ (Running /\ Top.pc \in {"eng", "fls"} /\ stack' # <<>>
         /\ stack'[Len(stack')].pc # Top.pc)
        => /\ \A m \in LetterRuns(cand') :
                 Len(m) > 3
                    => /\ ~IsKnownWord(m)
                       /\ Top.pc = "fls" => ~contains_excluded(m)
           /\ \A o \in ScanPass(Top.pc, cand', TouchingFlag(Top)) :
                 o.err = "none" /\ o.val = cand' /\ o.finds = 0 ]_vars

\* C9 witness: remove_english has returned a candidate that holds a letter run
\* longer than 3 beside another run
C9_Witness ==
    /\ Running
    /\ Top.fn = "direct" /\ Top.re /\ ~Top.rr /\ ~Top.cp
    /\ excluded_words = {}
    /\ Top.pc = "check"
    /\ Cardinality(LetterRuns(cand)) >= 2
    /\ \E m \in LetterRuns(cand) : Len(m) > 3

\* C10 as claimed: on a candidate at least as long as the number of classes,
\* with or without an exclusion set, ensure_proportions does not raise, and
\* what it returns passes confirm_proportions.
C10_EnsureProportionsReturnsCovered ==
    [][ (Running /\ Top.pc \in {"prop", "propitem", "propexc"}
         /\ Len(cand) >= Len(usable_chars))
        => /\ outcome' \notin Errors
           /\ stack'[Len(stack')].pc = "check" => confirm_proportions(cand') ]_vars

\* the object is constructed and no call has been made on it
Constructed == outcome = "none" /\ stack = <<>>

\* C11 as claimed: after construction from any list of classes and any list
\* of excluded characters, no class of the pool holds an excluded character.
C11_PoolHasNoExcludedChar ==
    Constructed
        => \A k \in 1..Len(usable_chars) :
              \A x \in Range(excluded_chars) : x \notin Range(usable_chars[k])

\* the loop of __init__, step by step, computes BuildPool
LoopIsBuildPool ==
    Constructed => usable_chars = BuildPool(call.usable, call.excluded)

\* s is an initial part of t
IsPrefix(s, t) == Len(s) <= Len(t) /\ SubSeq(t, 1, Len(s)) = s

\* C12: across any sequence of calls of the three modes each list changes only
\* by growing at its end (nothing accepted is removed, moved or merged with an
\* equal string), and all_passwords reads as the direct list followed by the
\* human-style list.
C12_AppendOnlyInOrder ==
    [][ /\ IsPrefix(passwords, passwords')
        /\ IsPrefix(human_passwords, human_passwords')
        /\ Len(all_passwords') = Len(passwords') + Len(human_passwords')
        /\ \A j \in 1..Len(passwords') : all_passwords'[j] = passwords'[j]
        /\ \A j \in 1..Len(human_passwords') :
              all_passwords'[Len(passwords') + j] = human_passwords'[j] ]_vars

\* C12 witness: both lists hold a string, and the same string is stored twice
C12_Witness ==
    /\ passwords # <<>>
    /\ human_passwords # <<>>
    /\ \E i, j \in 1..Len(all_passwords) : i < j /\ all_passwords[i] = all_passwords[j]

\* no two adjacent positions of s hold the same character
NoTouchingDuplicates(s) == \A i \in 1..(Len(s) - 1) : s[i] # s[i+1]

\* C13 as claimed: no password stored in human_passwords has two adjacent
\* equal characters.
C13_HumanNoTouchingDuplicates ==
    \A j \in 1..Len(human_passwords) : NoTouchingDuplicates(human_passwords[j])

\* the frame f runs generate_password under the arguments of the outermost call
SameParameters(f) ==
    /\ f.fn = "direct"
    /\ f.n = ClampNumber(call.n)
    /\ f.rr = call.rr
    /\ f.re = call.re
    /\ f.cp = call.cp
    /\ f.fl = call.fl

\* C14 as claimed: after a breach rejection in a call of generate_password the
\* call goes on without an error, and every attempt it runs, restarts
\* included, runs under the parameters of the call: the same fixed length,
\* flags and mode.
C14_RestartKeepsParameters ==
    (call.fn = "direct" /\ Rejections >= 1)
        => /\ outcome \notin Errors
           /\ \A j \in 1..Len(stack) : SameParameters(stack[j])

\* the maximal letter run of s around position p (s[p] is a letter)
RunAround(s, p) ==
    LET lo == CHOOSE a \in 1..p :
                 /\ \A q \in a..p : s[q] \in Letters
                 /\ a > 1 => s[a-1] \notin Letters
        hi == CHOOSE b \in p..Len(s) :
                 /\ \A q \in p..b : s[q] \in Letters
                 /\ b < Len(s) => s[b+1] \notin Letters
    IN  SubSeq(s, lo, hi)

\* the positions of s inside a maximal letter run the loop replaces
QualifyingPositions(variant, s) ==
    {p \in 1..Len(s) : s[p] \in Letters /\ Qualifies(variant, RunAround(s, p), s)}

\* the loop the frame f is running, if it is running one
RunningLoop(f) ==
    CASE f.pc \in {"fls", "eng", "exc"} -> f.pc
      [] f.pc = "propexc" -> "exc"
      [] OTHER -> "none"

\* C15 as claimed: a pass of find_letter_sequences, remove_english or
\* remove_excluded does not raise; it leaves the candidate's length as it was
\* and changes no position outside the maximal letter runs that qualify for
\* replacement.
C15_WordRepairFrame ==
    [][ (Running /\ RunningLoop(Top) # "none")
        => /\ outcome' \notin Errors
           /\ Len(cand') = Len(cand)
           /\ \A p \in 1..Len(cand) :
                 p \notin QualifyingPositions(RunningLoop(Top), cand)
                    => cand'[p] = cand[p] ]_vars

\* the innermost call is inside a word or excluded-substring loop
InWordLoop == Running /\ RunningLoop(Top) # "none"

\* C16: from every candidate and every exclusion set, a run of
\* find_letter_sequences, remove_english or remove_excluded (called by an
\* attempt or by ensure_proportions) eventually leaves its `while finds == 1`
\* loop: no input keeps the loop running under every sequence of draws.
C16_WordLoopsExit == InWordLoop ~> ~InWordLoop

\* C16 witness: find_letter_sequences has returned, with an exclusion set
\* configured, a candidate that holds a letter run longer than 3
C16_Witness ==
    /\ Running
    /\ Top.fn = "human"
    /\ Top.pc = "prop"
    /\ excluded_words # {}
    /\ \E m \in LetterRuns(cand) : Len(m) > 3

\* C17: remove_touching_duplicates, on a non-empty list, returns a list of the
\* same length whose last character is the input's, and every position whose
\* right neighbour in the input differs keeps its character: only positions i
\* with input[i] = input[i+1] can change.
C17_TouchingDuplicatesFrame ==
    [][ (Running /\ Top.pc = "adj" /\ cand # <<>> /\ stack' # <<>>)
        => /\ Len(cand') = Len(cand)
           /\ cand'[Len(cand)] = cand[Len(cand)]
           /\ \A i \in 1..(Len(cand) - 1) :
                 cand[i] # cand[i+1] => cand'[i] = cand[i] ]_vars

\* C17 witness: remove_touching_duplicates has returned the candidate, and it
\* can have done so by redrawing the first character of a pair
C17_Witness ==
    /\ Running
    /\ Top.fn = "direct" /\ Top.rr /\ ~Top.re /\ ~Top.cp
    /\ excluded_words = {}
    /\ Top.pc = "check"
    /\ Len(cand) >= 3
    /\ cand[1] # cand[2]
    /\ Ok(cand) \in remove_touching_duplicates([cand EXCEPT ![1] = cand[2]])

\* the characters of the filtered pool
PoolChars == UNION {Range(usable_chars[k]) : k \in 1..Len(usable_chars)}

\* every character of every stored password is in the pool
AcceptedFromPool ==
    \A j \in 1..Len(all_passwords) : Range(all_passwords[j]) \subseteq PoolChars

\* C18 as claimed: every character of every password accepted by
\* generate_password or generate_human_password is in some class of the
\* filtered pool and is not a globally excluded character.
C18_AcceptedCharsUsable ==
    /\ AcceptedFromPool
    /\ \A j \in 1..Len(all_passwords) :
          Range(all_passwords[j]) \cap Range(excluded_chars) = {}

\* C19: entered with a candidate that holds a character of every class,
\* ensure_proportions returns at once: the candidate is unchanged, nothing is
\* drawn and remove_excluded is not run; and whatever it returns holds a
\* character of every class, so a second application is such a no-op.
C19_EnsureProportionsNoOpWhenCovered ==
    [][ (Running /\ Top.pc = "prop")
        => /\ CoversEveryClass(cand)
              => /\ cand' = cand
                 /\ stack' = SetTop([Top EXCEPT !.pc = "check"])
                 /\ outcome' = outcome
           /\ (stack' # <<>> /\ stack'[Len(stack')].pc = "check")
              => CoversEveryClass(cand') ]_vars

\* C19 witness: with an exclusion set configured, ensure_proportions has
\* returned a candidate longer than the number of classes that holds a
\* character of every class
C19_Witness ==
    /\ Running
    /\ Top.cp
    /\ Top.pc = "check"
    /\ excluded_words # {}
    /\ Len(cand) > Len(usable_chars)
    /\ CoversEveryClass(cand)

====
